---- MODULE Spec2Model ----
(***************************************************************************)
(* Server-Guard frontend: the attack simulation console (two variants:     *)
(* the /api/analyze console and the older /attack console) and the         *)
(* telemetry dashboard (polling variant and socket-driven variant).        *)
(*                                                                         *)
(* Modelling conventions                                                   *)
(*  - one action per handler / callback, run to completion (JavaScript     *)
(*    event loop); an `await` splits a handler into the part before the    *)
(*    await and the continuation that runs when the promise settles;       *)
(*  - React state setters called after the component is unmounted are      *)
(*    dropped; refs and browser timers keep working;                       *)
(*  - a log entry keeps its message (as a tag) and its category; the       *)
(*    wall-clock `ts` string is not modelled.                              *)
(***************************************************************************)
EXTENDS Integers, Sequences, FiniteSets, TLC

\* ------------------------------------------------------------------ bounds
MaxOps      == 2   \* operator actions (start, stop, ping, edit target, leave) per run
MaxTicks    == 2   \* ticks of one interval per run, where the run does not follow it to its end
MaxTimerOps == 1   \* operator actions per run, where the run follows every interval to its end
MaxLogOps   == 1   \* operator actions per run that starts from a filled log
MaxRaceOps  == 3   \* starts and stops per run that interleaves them with responses
MaxPinged   == 45  \* answered pings before a run that starts from a filled log

\* --------------------------------------------------------- program constants
LogCap        == 100   \* addLog: prev.slice(-100)
maxIterations == 15    \* /api/analyze interval: auto-stop

NULL == "null"

Modules == {"sql", "brute", "flood", "scan"}

\* the attack kinds the operator picks in the runs explored
Kinds == {"sql", "flood"}

DEFAULT_TARGET == "http://127.0.0.1:3001"
V0_TARGET      == "192.168.1.10"

VARIABLES
    variant,         \* "analyze" (/api/analyze console) or "attack" (/attack console)
    mounted,         \* the console component is mounted
    status,          \* useState('READY')
    activeModuleId,  \* useState(null)
    logs,            \* useState(INITIAL_LOGS)
    config,          \* useState({target, requests, threads}); only target is kept
    timerRef,        \* useRef(null): index into intervals, 0 for null
    intervals,       \* every setInterval created so far: [moduleId, counter, lines, alive]
    requests,        \* analysis requests in flight: [id, moduleId]
    timeouts,        \* pending return-to-READY timeouts (ids of their attacks)
    pings,           \* probes in flight
    attacks,         \* accepted startAttack calls so far (numbers the requests)
    ops,             \* operator actions so far
    limits,          \* the run's exploration limits: [ops, ticks]
    lastOp,          \* history: the console handler that ran last, its argument, the status it saw
    \* ---- dashboard (Dashboard.jsx, and the socket-driven Dashboard)
    dashVariant,     \* "poll" (Dashboard.jsx) or "socket" (socket-driven dashboard)
    dashPhase,       \* "new" (constructed), "mounted", "unmounted"
    telemetryHistory,\* useState(Array(30).fill({cpu: 0, memory: 0, net: 0}))
    dashLogs,        \* the dashboard's `logs`: useState([])
    alerts,          \* useState([])
    nodes,           \* useState([])
    selectedNode,    \* useState(null)
    stats,           \* useState({events: 0, blocked: 0})
    lastPollError,   \* useState(null)
    pollTimer,       \* the setInterval(poll, 2000) is alive
    polls,           \* polls in flight (their issue numbers)
    issued,          \* polls issued so far
    applied,         \* issue numbers of the polls that completed, in completion order
    freshIds,        \* ids made up so far by `Date.now() + Math.random()`
    events,          \* socket events received so far
    lastDash,        \* history: the dashboard handler that ran last, and the response it handled
    \* ---- alerts sidebar (AlertsSidebar, a child of the dashboard)
    soarStatus,      \* useState(null): the response engine's status as fetched last
    notices,         \* the alert() dialogs shown so far, in order
    soarFetches,     \* status fetches in flight
    unblocks,        \* unblock-all requests in flight
    sideOps,         \* sidebar operations so far (status fetches issued, button clicks)
    lastSide         \* history: the sidebar handler that ran last, and its argument

consoleVars == <<variant, mounted, status, activeModuleId, logs, config, timerRef,
                 intervals, requests, timeouts, pings, attacks, ops, limits, lastOp>>

dashVars == <<dashVariant, dashPhase, telemetryHistory, dashLogs, alerts, nodes, selectedNode,
              stats, lastPollError, pollTimer, polls, issued, applied, freshIds, events, lastDash>>

sidebarVars == <<soarStatus, notices, soarFetches, unblocks, sideOps, lastSide>>

vars == <<consoleVars, dashVars, sidebarVars>>

\* ------------------------------------------------------------- log helpers
Entry(msg, type) == [msg |-> msg, type |-> type]

\* Array.prototype.slice(-n)
SliceLast(s, n) == IF Len(s) <= n THEN s ELSE SubSeq(s, Len(s) - n + 1, Len(s))

\* addLog: setLogs(prev => [...prev.slice(-100), {ts, msg, type}])
addLog(l, msg, type) == Append(SliceLast(l, LogCap), Entry(msg, type))

\* a state setter: dropped once the component is unmounted
SetState(old, new) == IF mounted THEN new ELSE old

INITIAL_LOGS ==
    << Entry("[INIT]", "system"), Entry("[KERNEL]", "info"), Entry("[NETWORK]", "success"),
       Entry("[MODULE]", "info"), Entry("[AI] Web Gatekeeper", "success"),
       Entry("[AI] Network Shield", "success"), Entry("[AUTH]", "warning"),
       Entry("[MONITOR]", "info"), Entry("[STATUS] System ready", "info") >>

INITIAL_LOGS_V0 ==
    << Entry("Server console initialized", "info"), Entry("Uplink established", "success"),
       Entry("Loading infrastructure modules", "info"), Entry("Modules ready", "success"),
       Entry("Root privileges granted", "warning"), Entry("Awaiting target designation", "info") >>

\* ------------------------------------------------------------ timer helpers
\* clearInterval(id): a dead or unknown id is ignored
clearInterval(ivs, id) ==
    IF id \in 1..Len(ivs) THEN [ivs EXCEPT ![id].alive = FALSE] ELSE ivs

\* setInterval(cb, ms): the new interval's id is its index
setInterval(ivs, m) ==
    Append(ivs, [moduleId |-> m, counter |-> 0, lines |-> 0, alive |-> TRUE])

Alive == {i \in 1..Len(intervals) : intervals[i].alive}

\* the previous interval left running
ClearTimerRefSkipped(ivs, ref) == ivs

\* `if (timerRef.current) { clearInterval(timerRef.current); timerRef.current = null; }`
ClearTimerRef(ivs, ref) == clearInterval(ivs, ref)

\* the re-entrancy guard left out
StartNeverBlocked(s) == FALSE

\* `if (status === 'ATTACKING') return;`
StartBlocked(s) == s = "ATTACKING"

\* the empty-target check left out
NoTargetIgnored(c) == FALSE

\* `if (!config.target)`
NoTarget(c) == c.target = ""

\* ------------------------------------------------------------------- Init
\* the log list after k pings that were answered, on a freshly loaded console: each
\* ping appended its probe line and its reply line (k is small enough for addLog
\* not to have dropped an entry yet)
Pinged(v, k) ==
    (IF v = "analyze" THEN INITIAL_LOGS ELSE INITIAL_LOGS_V0)
    \o [i \in 1..(2 * k) |->
          IF v = "analyze"
          THEN (IF i % 2 = 1 THEN Entry("[PROBE] Initiating health check", "system")
                             ELSE Entry("[PROBE] Response received", "success"))
          ELSE (IF i % 2 = 1 THEN Entry("Pinging server", "system")
                             ELSE Entry("Server reply", "success"))]

\* console variant v as constructed, explored within lim, after k answered pings
ConsoleInit(v, lim, k) ==
    /\ limits = lim
    /\ variant = v
    /\ mounted = TRUE
    /\ status = "READY"
    /\ activeModuleId = NULL
    /\ logs = Pinged(v, k)
    /\ config = [target |-> IF v = "analyze" THEN DEFAULT_TARGET ELSE V0_TARGET]
    /\ timerRef = 0
    /\ intervals = << >>
    /\ requests = {}
    /\ timeouts = {}
    /\ pings = 0
    /\ attacks = 0
    /\ ops = 0
    /\ lastOp = [op |-> "init", arg |-> "", was |-> "READY"]


budgets == <<attacks, ops, limits>>

\* ------------------------------------------------ ConfigPanel: edit the target
\* onChange of the target input / the example links: setConfig({...config, target})
setTarget(t) ==
    /\ mounted
    /\ config.target # t
    /\ ops < limits.ops
    /\ ops' = ops + 1
    /\ config' = [config EXCEPT !.target = t]
    /\ lastOp' = [op |-> "setTarget", arg |-> t, was |-> status]
    /\ UNCHANGED <<dashVars, sidebarVars, variant, mounted, status, activeModuleId, logs, timerRef, intervals,
                   requests, timeouts, pings, attacks, limits>>

\* =================================================== /api/analyze console
\* startAttack(moduleId), up to the `await fetch(...)`
startAttack(m) ==
    /\ variant = "analyze"
    /\ mounted
    /\ IF StartBlocked(status)
       THEN UNCHANGED <<status, activeModuleId, logs, requests, attacks, ops>>
       ELSE /\ ops < limits.ops
            /\ ops' = ops + 1
            /\ status' = "ATTACKING"
            /\ activeModuleId' = m
            /\ logs' = addLog(addLog(logs, "[ATTACK] Initializing", "warning"),
                              "[CONFIG] Target", "info")
            /\ requests' = requests \cup {[id |-> attacks + 1, moduleId |-> m]}
            /\ attacks' = attacks + 1
    /\ lastOp' = [op |-> "startAttack", arg |-> m, was |-> status]
    /\ UNCHANGED <<dashVars, sidebarVars, variant, mounted, config, timerRef, intervals, timeouts, pings, limits>>

Outcomes == {"blocked", "allowed", "httpError", "networkFailure"}

\* The rest of startAttack, run when the fetch settles: response handling
\* (try/catch), then the interval set-up.
attackSettled(r, outcome) ==
    /\ variant = "analyze"
    /\ r \in requests
    /\ requests' = requests \ {r}
    /\ LET \* --- try { ... } catch
           log1 == CASE outcome = "blocked"   -> addLog(logs, "[AI-DEFENSE] THREAT BLOCKED", "error")
                     [] outcome = "allowed"   -> addLog(logs, "[AI-DEFENSE] REQUEST ALLOWED", "success")
                     [] outcome = "httpError" -> addLog(logs, "[ERROR] AI service returned error", "error")
                     [] OTHER                 -> addLog(logs, "[WARNING] AI endpoint unavailable", "warning")
           st1  == CASE outcome = "blocked"   -> "BLOCKED"
                     [] outcome = "httpError" -> "READY"
                     [] OTHER                 -> status
           am1  == IF outcome = "httpError" THEN NULL ELSE activeModuleId
           ivs1 == IF outcome = "httpError" THEN ClearTimerRef(intervals, timerRef) ELSE intervals
           ref1 == IF outcome = "httpError" THEN 0 ELSE timerRef
           \* --- `if (timerRef.current) {...}` then `timerRef.current = setInterval(...)`
           ivs2 == setInterval(ClearTimerRef(ivs1, ref1), r.moduleId)
       IN  /\ logs' = SetState(logs, log1)
           /\ status' = SetState(status, st1)
           /\ activeModuleId' = SetState(activeModuleId, am1)
           /\ intervals' = ivs2
           /\ timerRef' = Len(ivs2)
           /\ timeouts' = IF outcome \in {"blocked", "allowed"}
                          THEN timeouts \cup {r.id} ELSE timeouts
    /\ lastOp' = [op |-> "attackSettled", arg |-> outcome, was |-> status]
    /\ UNCHANGED <<dashVars, sidebarVars, variant, mounted, config, pings, budgets>>

\* a return to READY that leaves the module card active
returnToReadyKeepsModule(t) ==
    /\ variant = "analyze"
    /\ t \in timeouts
    /\ timeouts' = timeouts \ {t}
    /\ intervals' = ClearTimerRef(intervals, timerRef)
    /\ timerRef' = 0
    /\ status' = SetState(status, "READY")
    /\ logs' = SetState(logs, addLog(logs, "[STATUS] Simulation complete", "info"))
    /\ lastOp' = [op |-> "returnToReady", arg |-> "", was |-> status]
    /\ UNCHANGED <<dashVars, sidebarVars, variant, mounted, activeModuleId, config, requests, pings, budgets>>

\* the setTimeout(..., 1200) callback scheduled by a success response
returnToReady(t) ==
    /\ variant = "analyze"
    /\ t \in timeouts
    /\ timeouts' = timeouts \ {t}
    /\ intervals' = ClearTimerRef(intervals, timerRef)
    /\ timerRef' = 0
    /\ status' = SetState(status, "READY")
    /\ activeModuleId' = SetState(activeModuleId, NULL)
    /\ logs' = SetState(logs, addLog(logs, "[STATUS] Simulation complete", "info"))
    /\ lastOp' = [op |-> "returnToReady", arg |-> "", was |-> status]
    /\ UNCHANGED <<dashVars, sidebarVars, variant, mounted, config, requests, pings, budgets>>

\* category of the synthetic line of tick `c` for module m
SynthType(m, c) ==
    CASE m = "sql"   -> IF c % 3 = 0 THEN "warning" ELSE "info"
      [] m = "brute" -> IF c % 4 = 0 THEN "warning" ELSE "info"
      [] m = "flood" -> IF c % 5 = 0 THEN "error" ELSE "warning"
      [] OTHER       -> IF c % 3 = 0 THEN "success" ELSE "info"

\* an interval without its auto-stop
IterationsNeverDone(c) == FALSE

\* `if (counter >= maxIterations)`
IterationsDone(c) == c >= maxIterations

\* one run of the setInterval(..., 800) callback of interval i
intervalTick(i) ==
    /\ variant = "analyze"
    /\ i \in Alive
    /\ intervals[i].counter < limits.ticks
    /\ LET c == intervals[i].counter + 1
           m == intervals[i].moduleId
       IN  IF IterationsDone(c)
           THEN /\ intervals' = ClearTimerRef([intervals EXCEPT ![i].counter = c], timerRef)
                /\ timerRef' = 0
                /\ UNCHANGED logs
           ELSE /\ intervals' = [intervals EXCEPT ![i].counter = c, ![i].lines = @ + 1]
                /\ logs' = SetState(logs, addLog(logs, "synthetic", SynthType(m, c)))
                /\ UNCHANGED timerRef
    /\ lastOp' = [op |-> "intervalTick", arg |-> "", was |-> status]
    /\ UNCHANGED <<dashVars, sidebarVars, variant, mounted, status, activeModuleId, config, requests, timeouts,
                   pings, budgets>>

stopAttack ==
    /\ variant = "analyze"
    /\ mounted
    /\ ops < limits.ops
    /\ ops' = ops + 1
    /\ intervals' = ClearTimerRef(intervals, timerRef)
    /\ timerRef' = 0
    /\ status' = "READY"
    /\ activeModuleId' = NULL
    /\ logs' = addLog(addLog(logs, "[ABORT] Attack simulation terminated by operator", "error"),
                      "[STATUS] All connections closed", "info")
    /\ lastOp' = [op |-> "stopAttack", arg |-> "", was |-> status]
    /\ UNCHANGED <<dashVars, sidebarVars, variant, mounted, config, requests, timeouts, pings, attacks, limits>>

handlePing ==
    /\ variant = "analyze"
    /\ mounted
    /\ ops < limits.ops
    /\ ops' = ops + 1
    /\ logs' = addLog(logs, "[PROBE] Initiating health check", "system")
    /\ pings' = pings + 1
    /\ lastOp' = [op |-> "handlePing", arg |-> "", was |-> status]
    /\ UNCHANGED <<dashVars, sidebarVars, variant, mounted, status, activeModuleId, config, timerRef, intervals,
                   requests, timeouts, attacks, limits>>

\* a probe whose outcome also cancels the running interval
pingSettledStops(ok) ==
    /\ variant = "analyze"
    /\ pings > 0
    /\ pings' = pings - 1
    /\ logs' = SetState(logs, IF ok THEN addLog(logs, "[PROBE] Response received", "success")
                                    ELSE addLog(logs, "[ERROR] Connection refused", "error"))
    /\ intervals' = ClearTimerRef(intervals, timerRef)
    /\ timerRef' = 0
    /\ lastOp' = [op |-> "pingSettled", arg |-> IF ok THEN "ok" ELSE "failed", was |-> status]
    /\ UNCHANGED <<dashVars, sidebarVars, variant, mounted, status, activeModuleId, config,
                   requests, timeouts, budgets>>

\* .then(res => res.json()).then(...) / .catch(...)
pingSettled(ok) ==
    /\ variant = "analyze"
    /\ pings > 0
    /\ pings' = pings - 1
    /\ logs' = SetState(logs, IF ok THEN addLog(logs, "[PROBE] Response received", "success")
                                    ELSE addLog(logs, "[ERROR] Connection refused", "error"))
    /\ lastOp' = [op |-> "pingSettled", arg |-> IF ok THEN "ok" ELSE "failed", was |-> status]
    /\ UNCHANGED <<dashVars, sidebarVars, variant, mounted, status, activeModuleId, config, timerRef, intervals,
                   requests, timeouts, budgets>>

\* the useEffect cleanup
unmount ==
    /\ variant = "analyze"
    /\ mounted
    /\ ops < limits.ops
    /\ ops' = ops + 1
    /\ mounted' = FALSE
    /\ intervals' = ClearTimerRef(intervals, timerRef)
    /\ timerRef' = 0
    /\ lastOp' = [op |-> "unmount", arg |-> "", was |-> status]
    /\ UNCHANGED <<dashVars, sidebarVars, variant, status, activeModuleId, logs, config, requests, timeouts,
                   pings, attacks, limits>>

\* ======================================================== /attack console
startAttackV0(m) ==
    /\ variant = "attack"
    /\ mounted
    /\ IF StartBlocked(status)
       THEN UNCHANGED <<status, activeModuleId, logs, requests, attacks, ops>>
       ELSE IF NoTarget(config)
       THEN /\ ops < limits.ops
            /\ ops' = ops + 1
            /\ logs' = addLog(logs, "FAILURE: Cannot initialize attack module", "error")
            /\ UNCHANGED <<status, activeModuleId, requests, attacks>>
       ELSE /\ ops < limits.ops
            /\ ops' = ops + 1
            /\ status' = "ATTACKING"
            /\ activeModuleId' = m
            /\ logs' = addLog(addLog(logs, "Initializing module", "warning"), "Target", "info")
            /\ requests' = requests \cup {[id |-> attacks + 1, moduleId |-> m]}
            /\ attacks' = attacks + 1
    /\ lastOp' = [op |-> "startAttackV0", arg |-> m, was |-> status]
    /\ UNCHANGED <<dashVars, sidebarVars, variant, mounted, config, timerRef, intervals, timeouts, pings, limits>>

\* data.results of a routed attack: the per-node delivery statuses
ResultLists == {<< >>, <<"delivered">>, <<"delivered", "failed">>}

RECURSIVE addResultLogs(_, _)
addResultLogs(l, res) ==
    IF res = << >> THEN l
    ELSE addResultLogs(addLog(l, "Node", IF Head(res) = "delivered" THEN "info" ELSE "error"),
                       Tail(res))

OutcomesV0 == {"routed", "blocked", "error", "networkFailure"}

\* the rest of startAttack, run when the fetch settles
attackSettledV0(r, outcome, res) ==
    /\ variant = "attack"
    /\ r \in requests
    /\ outcome = "routed" \/ res = << >>
    /\ requests' = requests \ {r}
    /\ logs' = CASE outcome = "routed"  ->
                      addResultLogs(addLog(logs, "[Backend] Attack routed successfully", "success"), res)
                 [] outcome = "blocked" -> addLog(logs, "[SHIELD] Attack BLOCKED", "error")
                 [] outcome = "error"   -> addLog(logs, "[Backend] Error", "error")
                 [] OTHER               -> addLog(logs, "[Network] Failed to contact Gateway", "error")
    /\ status' = IF outcome = "blocked" THEN "BLOCKED" ELSE status
    /\ intervals' = setInterval(intervals, r.moduleId)
    /\ timerRef' = Len(intervals) + 1
    /\ lastOp' = [op |-> "attackSettledV0", arg |-> outcome, was |-> status]
    /\ UNCHANGED <<dashVars, sidebarVars, variant, mounted, activeModuleId, config, timeouts, pings, budgets>>

\* one run of the setInterval(..., 1500) callback; `emit` is rdm above the threshold
intervalTickV0(i, emit) ==
    /\ variant = "attack"
    /\ i \in Alive
    /\ intervals[i].counter < limits.ticks
    /\ LET m == intervals[i].moduleId
           say == emit /\ m \in {"sql", "brute"}
       IN  /\ intervals' = [intervals EXCEPT ![i].counter = @ + 1,
                                             ![i].lines = IF say THEN @ + 1 ELSE @]
           /\ logs' = IF say THEN addLog(logs, "synthetic", "info") ELSE logs
    /\ lastOp' = [op |-> "intervalTickV0", arg |-> "", was |-> status]
    /\ UNCHANGED <<dashVars, sidebarVars, variant, mounted, status, activeModuleId, config, timerRef, requests,
                   timeouts, pings, budgets>>

stopAttackV0 ==
    /\ variant = "attack"
    /\ mounted
    /\ ops < limits.ops
    /\ ops' = ops + 1
    /\ intervals' = ClearTimerRef(intervals, timerRef)
    /\ status' = "READY"
    /\ activeModuleId' = NULL
    /\ logs' = addLog(addLog(logs, "Attack sequence aborted", "error"),
                      "Server returned to idle state", "info")
    /\ lastOp' = [op |-> "stopAttackV0", arg |-> "", was |-> status]
    /\ UNCHANGED <<dashVars, sidebarVars, variant, mounted, config, timerRef, requests, timeouts, pings, attacks, limits>>

handlePingV0 ==
    /\ variant = "attack"
    /\ mounted
    /\ ops < limits.ops
    /\ ops' = ops + 1
    /\ IF NoTarget(config)
       THEN /\ logs' = addLog(logs, "Error: No target specified for PING request.", "error")
            /\ UNCHANGED pings
       ELSE /\ logs' = addLog(logs, "Pinging server", "system")
            /\ pings' = pings + 1
    /\ lastOp' = [op |-> "handlePingV0", arg |-> "", was |-> status]
    /\ UNCHANGED <<dashVars, sidebarVars, variant, mounted, status, activeModuleId, config, timerRef, intervals,
                   requests, timeouts, attacks, limits>>

\* the setTimeout(..., 600) callback
pingReplyV0 ==
    /\ variant = "attack"
    /\ pings > 0
    /\ pings' = pings - 1
    /\ logs' = addLog(logs, "Server reply", "success")
    /\ lastOp' = [op |-> "pingReplyV0", arg |-> "", was |-> status]
    /\ UNCHANGED <<dashVars, sidebarVars, variant, mounted, status, activeModuleId, config, timerRef, intervals,
                   requests, timeouts, budgets>>

\* ============================================================== dashboard
MaxPolls      == 2    \* polls issued per run
MaxSnap       == 52   \* records in the largest snapshot polled
MaxEvents     == 3    \* socket events received per run (after the prefilled ones)
MaxPrefilled  == 20   \* telemetry events already received when a socket run starts

DashLogCap   == 50    \* .slice(-50)
SocketLogCap == 20    \* prev.slice(-20)
AlertCap     == 50    \* [alert, ...prev].slice(0, 50)
HistoryLen   == 30    \* Array(30)

ZeroSample == [cpu |-> 0, memory |-> 0, net |-> 0]

serviceMap ==
    [s \in {"web_frontend", "auth_service", "api_gateway", "network_scanner", "ping_test", "unknown"} |->
        CASE s = "web_frontend"    -> "Web Frontend"
          [] s = "auth_service"    -> "Auth Service"
          [] s = "api_gateway"     -> "API Gateway"
          [] s = "network_scanner" -> "Network Scanner"
          [] s = "ping_test"       -> "Health Check"
          [] OTHER                 -> "System"]

attackMap ==
    [a \in {"sql_injection", "brute_force", "ddos", "port_scan", "xss"} |->
        CASE a = "sql_injection" -> "SQL Injection detected"
          [] a = "brute_force"   -> "Brute force attempt"
          [] a = "ddos"          -> "DDoS attack detected"
          [] a = "port_scan"     -> "Port scan detected"
          [] OTHER               -> "XSS attempt detected"]

\* serviceMap[service] || service
formatService(service) ==
    IF service \in DOMAIN serviceMap THEN serviceMap[service] ELSE service

\* a description that is always the raw code
formatAttackRaw(attack) == attack

\* attackMap[attack] || attack || 'Request processed'
formatAttack(attack) ==
    IF attack \in DOMAIN attackMap THEN attackMap[attack]
    ELSE IF attack # NULL /\ attack # "" THEN attack
    ELSE "Request processed"

\* the level left in the case it came in
toUpperCaseForgotten(t) == t

\* String.prototype.toUpperCase on the threat levels that occur
toUpperCase(t) ==
    CASE t = "low"      -> "LOW"
      [] t = "medium"   -> "MEDIUM"
      [] t = "high"     -> "HIGH"
      [] t = "critical" -> "CRITICAL"
      [] OTHER          -> t

\* Math.round(score * 100), the score kept in thousandths
Round100(score) == (score + 5) \div 10

\* an absent numeric field (undefined)
NONE == 0 - 1

\* `x || d` for a string-valued x (undefined and '' are falsy)
OrElse(x, d) == IF x = NULL \/ x = "" THEN d ELSE x

\* `x || d` for a number-valued x (undefined and 0 are falsy)
NumOrElse(x, d) == IF x = NONE \/ x = 0 THEN d ELSE x

\* JSON values of threat_level that are not strings, written as tags
NonStrings == {"#5"}

\* the callback of (data.logs || []).map: one raw record to one log entry; a
\* message is the sequence of the pieces it is concatenated from
normalize(l, fresh) ==
    LET service    == formatService(OrElse(l.service, "unknown"))
        attackType == IF OrElse(l.attack_type, NULL) # NULL THEN formatAttack(l.attack_type) ELSE ""
        statusText == IF l.status = "blocked" THEN "Blocked"
                      ELSE IF l.status = "warning" THEN "Warning" ELSE "Allowed"
        message    == OrElse(attackType, OrElse(l.message, statusText))
    IN  [id        |-> NumOrElse(l.id, fresh),
         msg       |-> IF OrElse(l.threat_level, NULL) # NULL /\ l.threat_level # "low"
                       THEN <<message, " - ", "Threat: ", toUpperCase(l.threat_level)>>
                       ELSE <<message>>,
         ts        |-> OrElse(l.timestamp, "now"),
         status    |-> l.status,
         score     |-> l.score,
         threat    |-> l.threat_level,
         source    |-> service,
         is_ai_gen |-> l.is_ai_gen \/ FALSE]

\* l.threat_level.toUpperCase() throws when the level is truthy and not a string
Throws(l) == l.threat_level \in NonStrings

\* ids made up by Date.now() + Math.random(): never equal to a server id
FreshId(n) == 1000000 + n

\* the normalized list without its truncation
normalizedLogsUncut(data, made) ==
    [i \in 1..Len(data) |-> normalize(data[i], FreshId(made + i))]

\* (data.logs || []).map(...).slice(-50)
normalizedLogs(data, made) ==
    SliceLast([i \in 1..Len(data) |-> normalize(data[i], FreshId(made + i))], DashLogCap)

\* a filter that lets warnings through unnoticed
IsAlertStatusBlockedOnly(l) == l.status = "blocked"

\* l => l.status === 'blocked' || l.status === 'warning'
IsAlertStatus(l) == l.status = "blocked" \/ l.status = "warning"

toAlert(l) ==
    [id        |-> l.id,
     type      |-> IF l.status = "blocked" THEN "critical" ELSE "warning",
     source    |-> OrElse(l.source, "AI Defense"),
     msg       |-> l.msg,
     conf      |-> Round100(NumOrElse(l.score, 0)),
     time      |-> l.ts,
     isAiGen   |-> l.is_ai_gen \/ FALSE,
     isBlocked |-> l.status = "blocked"]

\* normalizedLogs.filter(...).map(...)
derivedAlerts(nl) ==
    LET kept == SelectSeq(nl, IsAlertStatus)
    IN  [i \in 1..Len(kept) |-> toAlert(kept[i])]

IsCritical(a) == a.type = "critical"

Min(a, b) == IF a < b THEN a ELSE b

\* a sample that grows with the log volume
sampleUnbounded(n) == [cpu |-> 10 + n, memory |-> 40 + (n * 3), net |-> 50 + (n * 5)]

\* the telemetry sample of a poll with n normalized entries
sample(n) ==
    [cpu    |-> Min(99, 10 + (n % 70)),
     memory |-> 40 + ((n * 3) % 40),
     net    |-> 50 + ((n * 5) % 300)]

\* a buffer filled from the front
pushSampleFront(h, point) == <<point>> \o SubSeq(h, 1, Len(h) - 1)

\* setTelemetryHistory(prev => [...prev.slice(1), point])
pushSample(h, point) == Append(Tail(h), point)

DetectionEngine ==
    [id |-> "model-microservice", name |-> "Detection Engine", ip |-> "127.0.0.1:8006",
     type |-> "Firewall", status |-> "online"]

\* ----------------------------------------------- the snapshots polled
Raw(id, service, attack, st, score, threat, message) ==
    [id |-> id, service |-> service, attack_type |-> attack, status |-> st, score |-> score,
     threat_level |-> threat, message |-> message, timestamp |-> NULL, is_ai_gen |-> FALSE]

ExampleRecord == Raw(NONE, "web_frontend", "sql_injection", "blocked", 970, "high", NULL)

RecordOf(j) ==
    CASE j % 4 = 0 -> Raw(j, "auth_service", "brute_force", "warning", 555, "medium", NULL)
      [] j % 4 = 1 -> Raw(j, NULL, NULL, "allowed", NONE, "low", "GET /index.html")
      [] j % 4 = 2 -> Raw(j, "edge_cache", "zero_day", "blocked", 1000, "critical", NULL)
      [] OTHER     -> Raw(NONE, "ping_test", NULL, "allowed", 12, NULL, NULL)

Snapshot(k, o) == [i \in 1..k |-> RecordOf(o + i)]

SnapSizes == {0, 2, MaxSnap - 2, MaxSnap}

Snapshots ==
    {<<ExampleRecord>>, <<RecordOf(1), Raw(9, "api_gateway", "ddos", "blocked", 900, "#5", NULL)>>}
    \cup {Snapshot(k, o) : k \in SnapSizes, o \in {0, 1}}

Totals == {NONE, 0, 7}

\* a fetch that rejects
NoResponse == [rejects |-> TRUE, data |-> << >>, total |-> NONE]

\* ------------------------------------------------------------ Init
\* useState(null): no status known; the panel reads it as `soarStatus?.total_blocked`
SoarNull == [known |-> FALSE, total_blocked |-> 0, total_throttled |-> 0]

\* AlertsSidebar as constructed
SidebarInit ==
    /\ soarStatus = SoarNull
    /\ notices = << >>
    /\ soarFetches = 0
    /\ unblocks = 0
    /\ sideOps = 0
    /\ lastSide = [op |-> "init", arg |-> ""]

DashInit(v) ==
    /\ dashVariant = v
    /\ dashPhase = "new"
    /\ telemetryHistory = [i \in 1..HistoryLen |-> ZeroSample]
    /\ dashLogs = << >>
    /\ alerts = << >>
    /\ nodes = << >>
    /\ selectedNode = NULL
    /\ stats = [events |-> 0, blocked |-> 0]
    /\ lastPollError = NULL
    /\ pollTimer = FALSE
    /\ polls = {}
    /\ issued = 0
    /\ applied = << >>
    /\ freshIds = 0
    /\ events = 0
    /\ lastDash = [op |-> "init", res |-> NoResponse]
    /\ SidebarInit

dashCounters == <<issued, applied, freshIds, events>>

\* ----------------------------------------------- Dashboard.jsx (polling)
\* the effect: poll(); const interval = setInterval(poll, 2000)
dashMount ==
    /\ dashVariant = "poll"
    /\ dashPhase = "new"
    /\ dashPhase' = "mounted"
    /\ pollTimer' = TRUE
    /\ polls' = polls \cup {issued + 1}
    /\ issued' = issued + 1
    /\ lastDash' = [op |-> "dashMount", res |-> NoResponse]
    /\ UNCHANGED <<consoleVars, sidebarVars, dashVariant, telemetryHistory, dashLogs, alerts, nodes,
                   selectedNode, stats, lastPollError, applied, freshIds, events>>

\* a tick of setInterval(poll, 2000): poll() up to its `await fetch`
pollTick ==
    /\ dashVariant = "poll"
    /\ pollTimer
    /\ issued < MaxPolls
    /\ polls' = polls \cup {issued + 1}
    /\ issued' = issued + 1
    /\ lastDash' = [op |-> "pollTick", res |-> NoResponse]
    /\ UNCHANGED <<consoleVars, sidebarVars, dashVariant, dashPhase, telemetryHistory, dashLogs, alerts,
                   nodes, selectedNode, stats, lastPollError, pollTimer, applied, freshIds,
                   events>>

\* a state setter of the dashboard: dropped once it is unmounted
DashSet(old, new) == IF dashPhase = "mounted" THEN new ELSE old

\* the rest of poll() when the fetch resolved with {logs: data, total_logs: total}
pollApply(data, total) ==
    LET nl == normalizedLogs(data, freshIds)
        da == derivedAlerts(nl)
    IN  /\ lastPollError' = DashSet(lastPollError, NULL)
        /\ dashLogs' = DashSet(dashLogs, nl)
        /\ alerts' = DashSet(alerts, da)
        /\ stats' = DashSet(stats, [events  |-> NumOrElse(total, Len(nl)),
                                    blocked |-> Len(SelectSeq(da, IsCritical))])
        /\ telemetryHistory' = DashSet(telemetryHistory, pushSample(telemetryHistory, sample(Len(nl))))
        /\ nodes' = DashSet(nodes, <<DetectionEngine>>)
        /\ selectedNode' = DashSet(selectedNode, "model-microservice")
        /\ freshIds' = freshIds + Len(data)

\* a catch block that also empties the view
pollFailClears ==
    /\ lastPollError' = DashSet(lastPollError, "Model service unreachable")
    /\ dashLogs' = DashSet(dashLogs, << >>)
    /\ alerts' = DashSet(alerts, << >>)
    /\ UNCHANGED <<telemetryHistory, nodes, selectedNode, stats, freshIds>>

\* a catch block that swallows the failure
pollFailSilent ==
    UNCHANGED <<lastPollError, telemetryHistory, dashLogs, alerts, nodes, selectedNode, stats, freshIds>>

\* the catch block of poll()
pollFail ==
    /\ lastPollError' = DashSet(lastPollError, "Model service unreachable")
    /\ UNCHANGED <<telemetryHistory, dashLogs, alerts, nodes, selectedNode, stats, freshIds>>

\* what a poll's fetch can settle with: a rejection, or {logs: data, total_logs: total}
Responses ==
    {NoResponse}
    \cup {[rejects |-> FALSE, data |-> d, total |-> t] : d \in Snapshots, t \in Totals}

\* poll p settles with response res: the rest of poll() after `await fetch`
pollSettled(p, res) ==
    /\ dashVariant = "poll"
    /\ p \in polls
    /\ polls' = polls \ {p}
    /\ applied' = Append(applied, p)
    /\ IF res.rejects \/ \E i \in 1..Len(res.data) : Throws(res.data[i])
       THEN pollFail
       ELSE pollApply(res.data, res.total)
    /\ lastDash' = [op |-> "pollSettled", res |-> res]
    /\ UNCHANGED <<consoleVars, sidebarVars, dashVariant, dashPhase, pollTimer, issued, events>>

\* a cleanup that forgets the interval
dashUnmountLeaks ==
    /\ dashVariant = "poll"
    /\ dashPhase = "mounted"
    /\ dashPhase' = "unmounted"
    /\ lastDash' = [op |-> "dashUnmount", res |-> NoResponse]
    /\ UNCHANGED <<consoleVars, sidebarVars, dashVariant, telemetryHistory, dashLogs, alerts, nodes,
                   selectedNode, stats, lastPollError, pollTimer, polls, dashCounters>>

\* the effect's cleanup: clearInterval(interval)
dashUnmount ==
    /\ dashVariant = "poll"
    /\ dashPhase = "mounted"
    /\ dashPhase' = "unmounted"
    /\ pollTimer' = FALSE
    /\ lastDash' = [op |-> "dashUnmount", res |-> NoResponse]
    /\ UNCHANGED <<consoleVars, sidebarVars, dashVariant, telemetryHistory, dashLogs, alerts, nodes,
                   selectedNode, stats, lastPollError, polls, dashCounters>>

NextDash ==
    \/ dashMount
    \/ pollTick
    \/ \E p \in polls, res \in Responses : pollSettled(p, res)
    \/ dashUnmount

\* --------------------------------------- the socket-driven Dashboard
\* the log line of a 'telemetry' or 'attack_routed' event
SocketLine(n, what) == [id |-> FreshId(n), msg |-> <<what>>, ts |-> "now"]

\* setLogs(prev => [...prev.slice(-20), line])
socketLog(l, line) == Append(SliceLast(l, SocketLogCap), line)

\* setAlerts(prev => [alert, ...prev].slice(0, 50))
pushAlert(as, a) == SubSeq(<<a>> \o as, 1, Min(Len(as) + 1, AlertCap))

\* the handlers registered by the effect run while the socket is open
SocketOpen == dashVariant = "socket" /\ dashPhase = "mounted" /\ events < MaxEvents

\* newSocket.on('telemetry', ...)
onTelemetry(metrics) ==
    /\ SocketOpen
    /\ events' = events + 1
    /\ freshIds' = freshIds + 1
    /\ telemetryHistory' = pushSample(telemetryHistory,
                               [cpu |-> metrics.cpu, memory |-> metrics.memory, net |-> metrics.network])
    /\ dashLogs' = socketLog(dashLogs, SocketLine(freshIds + 1, "telemetry"))
    /\ stats' = [events |-> stats.events + 1, blocked |-> stats.blocked]
    /\ lastDash' = [op |-> "onTelemetry", res |-> NoResponse]
    /\ UNCHANGED <<consoleVars, sidebarVars, dashVariant, dashPhase, alerts, nodes, selectedNode,
                   lastPollError, pollTimer, polls, issued, applied>>

\* newSocket.on('alert', ...)
onAlert(a) ==
    /\ SocketOpen
    /\ events' = events + 1
    /\ alerts' = pushAlert(alerts, a)
    /\ lastDash' = [op |-> "onAlert", res |-> NoResponse]
    /\ UNCHANGED <<consoleVars, sidebarVars, dashVariant, dashPhase, telemetryHistory, dashLogs, nodes,
                   selectedNode, stats, lastPollError, pollTimer, polls, issued, applied, freshIds>>

\* newSocket.on('ip:blocked', ...)
onIpBlocked ==
    /\ SocketOpen
    /\ events' = events + 1
    /\ freshIds' = freshIds + 1
    /\ alerts' = pushAlert(alerts, [id |-> FreshId(freshIds + 1), type |-> "critical",
                                    source |-> "Defense Engine", msg |-> <<"Blocked IP">>,
                                    conf |-> 99, time |-> "Just now"])
    /\ stats' = [stats EXCEPT !.blocked = @ + 1]
    /\ lastDash' = [op |-> "onIpBlocked", res |-> NoResponse]
    /\ UNCHANGED <<consoleVars, sidebarVars, dashVariant, dashPhase, telemetryHistory, dashLogs, nodes,
                   selectedNode, lastPollError, pollTimer, polls, issued, applied>>

\* newSocket.on('attack_routed', ...)
onAttackRouted ==
    /\ SocketOpen
    /\ events' = events + 1
    /\ freshIds' = freshIds + 1
    /\ dashLogs' = socketLog(dashLogs, SocketLine(freshIds + 1, "ATTACK ROUTED"))
    /\ lastDash' = [op |-> "onAttackRouted", res |-> NoResponse]
    /\ UNCHANGED <<consoleVars, sidebarVars, dashVariant, dashPhase, telemetryHistory, alerts, nodes,
                   selectedNode, stats, lastPollError, pollTimer, polls, issued, applied>>

\* the effect's cleanup: newSocket.close()
socketUnmount ==
    /\ dashVariant = "socket"
    /\ dashPhase = "mounted"
    /\ dashPhase' = "unmounted"
    /\ lastDash' = [op |-> "socketUnmount", res |-> NoResponse]
    /\ UNCHANGED <<consoleVars, sidebarVars, dashVariant, telemetryHistory, dashLogs, alerts, nodes,
                   selectedNode, stats, lastPollError, pollTimer, polls, dashCounters>>

Metrics == {[cpu |-> 37, memory |-> 61, network |-> 120]}

SocketAlerts == {[id |-> 1, type |-> "warning", source |-> "Detection Engine",
                  msg |-> <<"Rate spike">>, conf |-> 80, time |-> "now"]}

NextSocket ==
    \/ \E m \in Metrics : onTelemetry(m)
    \/ \E a \in SocketAlerts : onAlert(a)
    \/ onIpBlocked
    \/ onAttackRouted
    \/ socketUnmount

\* the log list after k 'telemetry' events on the initial dashboard
RECURSIVE Prefilled(_)
Prefilled(k) ==
    IF k = 0 THEN << >> ELSE socketLog(Prefilled(k - 1), SocketLine(k, "telemetry"))

\* ------------------------------------------------- AlertsSidebar (SOAR panel)
MaxSideOps == 3   \* status fetches and button clicks per run

\* what GET /api/soar/status can report
SoarStatuses ==
    {[known |-> TRUE, total_blocked |-> b, total_throttled |-> t] : b \in {0, 2}, t \in {0, 1}}

\* how the status fetch can end: res.ok with a status, or an HTTP error / a rejection
SoarResponses ==
    {[ok |-> TRUE, data |-> st] : st \in SoarStatuses} \cup {[ok |-> FALSE, data |-> SoarNull]}

\* fetchSoarStatus(), on mount and on every tick of setInterval(..., 5000), up to its await
fetchSoarStatus ==
    /\ sideOps < MaxSideOps
    /\ sideOps' = sideOps + 1
    /\ soarFetches' = soarFetches + 1
    /\ lastSide' = [op |-> "fetchSoarStatus", arg |-> ""]
    /\ UNCHANGED <<consoleVars, dashVars, soarStatus, notices, unblocks>>

\* the rest of fetchSoarStatus: `if (res.ok) setSoarStatus(await res.json())`
soarStatusSettled(res) ==
    /\ soarFetches > 0
    /\ soarFetches' = soarFetches - 1
    /\ soarStatus' = IF res.ok THEN res.data ELSE soarStatus
    /\ lastSide' = [op |-> "soarStatusSettled", arg |-> IF res.ok THEN "ok" ELSE "failed"]
    /\ UNCHANGED <<consoleVars, dashVars, notices, unblocks, sideOps>>

\* the 'clear all blocks' button is rendered
UnblockOffered == soarStatus.total_blocked > 0 \/ soarStatus.total_throttled > 0

\* `setUnblockTime(null)`: the component declares no such function, the call
\* throws a ReferenceError
setUnblockTimeThrows == TRUE

\* unblockAll(), up to its `await fetch`; confirmed is the answer to confirm()
unblockAll(confirmed) ==
    /\ UnblockOffered
    /\ sideOps < MaxSideOps
    /\ sideOps' = sideOps + 1
    /\ unblocks' = IF confirmed THEN unblocks + 1 ELSE unblocks
    /\ lastSide' = [op |-> "unblockAll", arg |-> IF confirmed THEN "confirmed" ELSE "declined"]
    /\ UNCHANGED <<consoleVars, dashVars, soarStatus, notices, soarFetches>>

\* how the unblock-all request can end: a success response, a success response
\* whose body is not JSON, an HTTP error status, a rejected fetch
UnblockOutcomes == {"ok", "okNotJson", "httpError", "rejects"}

\* the rest of unblockAll, run when the fetch settles
unblockSettled(outcome) ==
    /\ unblocks > 0
    /\ unblocks' = unblocks - 1
    /\ CASE outcome = "ok" ->
               \* alert(success); setSoarStatus(null); setUnblockTime(null) -> catch
               /\ soarStatus' = SoarNull
               /\ notices' = IF setUnblockTimeThrows
                             THEN notices \o <<"Defenses cleared", "Failed to clear defenses">>
                             ELSE notices \o <<"Defenses cleared">>
         [] outcome = "httpError" ->
               UNCHANGED <<soarStatus, notices>>
         [] OTHER ->
               \* res.json() or fetch threw: catch
               /\ notices' = Append(notices, "Failed to clear defenses")
               /\ UNCHANGED soarStatus
    /\ lastSide' = [op |-> "unblockSettled", arg |-> outcome]
    /\ UNCHANGED <<consoleVars, dashVars, soarFetches, sideOps>>

NextSidebar ==
    \/ fetchSoarStatus
    \/ \E res \in SoarResponses : soarStatusSettled(res)
    \/ \E c \in BOOLEAN : unblockAll(c)
    \/ \E o \in UnblockOutcomes : unblockSettled(o)

\* ================================================================= runs
Targets == {"", DEFAULT_TARGET}

Next ==
    \/ \E t \in Targets : setTarget(t)
    \/ \E m \in Kinds : startAttack(m)
    \/ \E r \in requests, o \in Outcomes : attackSettled(r, o)
    \/ \E t \in timeouts : returnToReady(t)
    \/ \E i \in Alive : intervalTick(i)
    \/ stopAttack
    \/ handlePing
    \/ \E ok \in BOOLEAN : pingSettled(ok)
    \/ unmount
    \/ \E m \in Kinds : startAttackV0(m)
    \/ \E r \in requests, o \in OutcomesV0, res \in ResultLists : attackSettledV0(r, o, res)
    \/ \E i \in Alive, emit \in BOOLEAN : intervalTickV0(i, emit)
    \/ stopAttackV0
    \/ handlePingV0
    \/ pingReplyV0

\* the two consoles, every operator action, intervals followed for MaxTicks ticks
Init ==
    /\ \E v \in {"analyze", "attack"} : ConsoleInit(v, [ops |-> MaxOps, ticks |-> MaxTicks], 0)
    /\ DashInit("poll")

Spec == Init /\ [][Next]_vars

\* the socket-driven dashboard once mounted, after k 'telemetry' events
SocketInit ==
    \E k \in 0..MaxPrefilled :
          /\ dashVariant = "socket"
          /\ dashPhase = "mounted"
          /\ telemetryHistory = [i \in 1..HistoryLen |->
                                   IF i > HistoryLen - k
                                   THEN [cpu |-> 37, memory |-> 61, net |-> 120] ELSE ZeroSample]
          /\ dashLogs = Prefilled(k)
          /\ alerts = << >>
          /\ nodes = << >>
          /\ selectedNode = NULL
          /\ stats = [events |-> k, blocked |-> 0]
          /\ lastPollError = NULL
          /\ pollTimer = FALSE
          /\ polls = {}
          /\ issued = 0
          /\ applied = << >>
          /\ freshIds = k
          /\ events = 0
          /\ lastDash = [op |-> "init", res |-> NoResponse]
          /\ SidebarInit

\* the two dashboards
InitDash ==
    /\ ConsoleInit("analyze", [ops |-> 0, ticks |-> 0], 0)
    /\ DashInit("poll") \/ SocketInit

SpecDash == InitDash /\ [][NextDash \/ NextSocket]_vars

\* the /api/analyze console alone
NextAnalyze ==
    \/ \E t \in Targets : setTarget(t)
    \/ \E m \in Kinds : startAttack(m)
    \/ \E r \in requests, o \in Outcomes : attackSettled(r, o)
    \/ \E t \in timeouts : returnToReady(t)
    \/ \E i \in Alive : intervalTick(i)
    \/ stopAttack
    \/ handlePing
    \/ \E ok \in BOOLEAN : pingSettled(ok)
    \/ unmount

\* the /api/analyze console, every interval followed to its end
InitTimer ==
    /\ ConsoleInit("analyze", [ops |-> MaxTimerOps, ticks |-> maxIterations], 0)
    /\ DashInit("poll")

SpecTimer == InitTimer /\ [][NextAnalyze]_vars

\* the browser runs the callback of a live interval again and again
FairSpecTimer == SpecTimer /\ WF_vars(\E i \in Alive : intervalTick(i))

\* the two consoles after k answered pings
InitLog ==
    /\ \E v \in {"analyze", "attack"}, k \in 0..MaxPinged :
          ConsoleInit(v, [ops |-> MaxLogOps, ticks |-> MaxTicks], k)
    /\ DashInit("poll")

SpecLog == InitLog /\ [][Next]_vars

\* the two consoles, the operator acting at most k times, k up to MaxOps
InitReturn ==
    /\ \E v \in {"analyze", "attack"}, k \in 1..MaxOps :
          ConsoleInit(v, [ops |-> k, ticks |-> MaxTicks], 0)
    /\ DashInit("poll")

SpecReturn == InitReturn /\ [][Next]_vars

\* the browser fires a pending timeout, and runs the callback of a live interval
FairSpecReturn ==
    /\ SpecReturn
    /\ WF_vars(\E t \in timeouts : returnToReady(t))
    /\ WF_vars(\E i \in Alive : intervalTick(i))
    /\ WF_vars(\E i \in Alive, emit \in BOOLEAN : intervalTickV0(i, emit))
    /\ WF_vars(pingReplyV0)

\* starting and stopping attacks, the arrival of responses, the return to READY
NextRace ==
    \/ \E m \in Kinds : startAttack(m)
    \/ \E r \in requests, o \in Outcomes : attackSettled(r, o)
    \/ \E t \in timeouts : returnToReady(t)
    \/ stopAttack
    \/ \E m \in Kinds : startAttackV0(m)
    \/ \E r \in requests, o \in OutcomesV0, res \in ResultLists : attackSettledV0(r, o, res)
    \/ stopAttackV0

\* the two consoles, the operator starting and stopping MaxRaceOps times
InitRace ==
    /\ \E v \in {"analyze", "attack"} : ConsoleInit(v, [ops |-> MaxRaceOps, ticks |-> 0], 0)
    /\ DashInit("poll")

SpecRace == InitRace /\ [][NextRace]_vars

\* the alerts sidebar of the polling dashboard
InitSidebar ==
    /\ ConsoleInit("analyze", [ops |-> 0, ticks |-> 0], 0)
    /\ DashInit("poll")

SpecSidebar == InitSidebar /\ [][NextSidebar]_vars

\* ================================================================ properties
\* the last handler that ran was startAttack (of either console)
StartRan(op) == op \in {"startAttack", "startAttackV0"}

\* the step appended exactly one entry, of category type, to the console log
AppendsOne(type) ==
    /\ Len(logs') = Len(logs) + 1
    /\ SubSeq(logs', 1, Len(logs)) = logs
    /\ logs'[Len(logs')].type = type

\* the step rejected the attack: one error line and nothing else
RejectedLocally ==
    /\ status' = status
    /\ activeModuleId' = activeModuleId
    /\ requests' = requests
    /\ timeouts' = timeouts
    /\ intervals' = intervals
    /\ timerRef' = timerRef
    /\ AppendsOne("error")

C2_AtMostOneTimer ==
    variant = "analyze" =>
        /\ Cardinality(Alive) <= 1
        /\ \A i \in Alive : i = timerRef

\* a second attack's interval replaced the first one
C2_Witness ==
    /\ variant = "analyze"
    /\ Len(intervals) = 2
    /\ ~intervals[1].alive
    /\ intervals[2].alive
    /\ timerRef = 2

\* C3: startAttack while status is ATTACKING is a no-op: status, activeModuleId,
\* the log list and the timer are unchanged and no request is issued.
C3_StartWhileAttackingNoOp ==
    [][(StartRan(lastOp'.op) /\ status = "ATTACKING")
          => UNCHANGED <<status, activeModuleId, logs, timerRef, intervals, requests, timeouts>>]_vars

C3_Witness ==
    /\ StartRan(lastOp.op)
    /\ lastOp.was = "ATTACKING"
    /\ status = "ATTACKING"
    /\ requests # {}

\* C4 (as claimed): stopAttack with status READY is a no-op: status,
\* activeModuleId, the timer and the log list are unchanged.
C4_StopWhenReadyNoOp ==
    [][(lastOp'.op \in {"stopAttack", "stopAttackV0"} /\ status = "READY")
          => UNCHANGED <<status, activeModuleId, timerRef, intervals, logs>>]_vars

\* C5 (as claimed): the console's log list never holds more than 100 entries.
C5_LogCap == Len(logs) <= LogCap

\* the response was fetched and processed without an exception
Succeeded(res) ==
    /\ ~res.rejects
    /\ \A i \in 1..Len(res.data) : res.data[i].threat_level \notin NonStrings

\* nl is the last min(k, 50) records of data, normalized, in the order of data
TailOf(nl, data) ==
    LET k == Len(data)
        n == IF k < DashLogCap THEN k ELSE DashLogCap
    IN  /\ Len(nl) = n
        /\ \A i \in 1..n :
              LET raw == data[k - n + i]
              IN  /\ nl[i].status = raw.status
                  /\ nl[i].msg = normalize(raw, 0).msg
                  /\ nl[i].source = normalize(raw, 0).source
                  /\ raw.id \notin {NONE, 0} => nl[i].id = raw.id

\* C6: the dashboard's log list (polling or socket-driven) never holds more than
\* 50 entries, and after a successful poll it is the last min(k, 50) records of
\* the snapshot, normalized, in snapshot order.
C6_DashLogCap ==
    /\ Len(dashLogs) <= DashLogCap
    /\ (lastDash.op = "pollSettled" /\ Succeeded(lastDash.res) /\ dashPhase = "mounted")
          => TailOf(dashLogs, lastDash.res.data)

\* a snapshot of more than 50 records was applied
C6_Witness ==
    /\ dashVariant = "poll"
    /\ dashPhase = "mounted"
    /\ lastDash.op = "pollSettled"
    /\ Succeeded(lastDash.res)
    /\ Len(lastDash.res.data) > DashLogCap
    /\ Len(dashLogs) = DashLogCap
    /\ dashLogs[DashLogCap].id = lastDash.res.data[Len(lastDash.res.data)].id

\* C7: a failed poll (the fetch rejects, or processing the response throws)
\* leaves nodes, selectedNode, logs, alerts, stats and telemetryHistory as they
\* were and sets lastPollError.
C7_FailedPollKeepsState ==
    [][(lastDash'.op = "pollSettled" /\ ~Succeeded(lastDash'.res) /\ dashPhase = "mounted")
          => /\ UNCHANGED <<nodes, selectedNode, dashLogs, alerts, stats, telemetryHistory>>
             /\ lastPollError' # NULL]_vars

\* a poll failed after an earlier poll had filled the dashboard
C7_Witness ==
    /\ dashPhase = "mounted"
    /\ lastDash.op = "pollSettled"
    /\ ~Succeeded(lastDash.res)
    /\ lastPollError # NULL
    /\ Len(dashLogs) > 0
    /\ nodes # << >>

Contains(msg, piece) == \E i \in 1..Len(msg) : msg[i] = piece

ContainsThreat(msg, level) ==
    \E i \in 1..(Len(msg) - 1) : msg[i] = "Threat: " /\ msg[i + 1] = level

\* the snapshot of the example was applied by the last handler
ExampleApplied ==
    /\ dashPhase = "mounted"
    /\ lastDash.op = "pollSettled"
    /\ ~lastDash.res.rejects
    /\ lastDash.res.data = <<ExampleRecord>>

\* C8: a successful poll of the one-record snapshot {web_frontend, sql_injection,
\* blocked, 0.97, high} yields exactly one alert: severity critical, confidence 97,
\* block flag set, message containing 'SQL Injection detected' and 'Threat: HIGH'.
C8_ExampleAlert ==
    ExampleApplied =>
        /\ Len(alerts) = 1
        /\ alerts[1].type = "critical"
        /\ alerts[1].conf = 97
        /\ alerts[1].isBlocked
        /\ Contains(alerts[1].msg, "SQL Injection detected")
        /\ ContainsThreat(alerts[1].msg, "HIGH")

C8_Witness == ExampleApplied /\ Len(alerts) = 1 /\ lastPollError = NULL

\* C9 (as claimed): once startAttack is accepted the log timer is alive, whether
\* or not the request has been answered.
C9_TimerRunsWhileRequestOutstanding ==
    (mounted /\ lastOp.op = "startAttack" /\ lastOp.was # "ATTACKING" /\ requests # {})
        => Alive # {}

\* C10: in the /api/analyze console an interval never runs beyond its 15th tick:
\* a live interval has ticked fewer than 15 times, no interval appended 15 lines,
\* the 15th tick cancels the interval and clears timerRef, and every live interval
\* is eventually cancelled.
C10_TickFifteen ==
    \A i \in 1..Len(intervals) :
        (intervals[i].counter = maxIterations - 1 /\ intervals'[i].counter = maxIterations)
            => (~intervals'[i].alive /\ timerRef' = 0 /\ logs' = logs)

C10_Bounded ==
    \A i \in 1..Len(intervals) :
        /\ intervals[i].lines < maxIterations
        /\ intervals[i].counter <= maxIterations
        /\ intervals[i].alive => intervals[i].counter < maxIterations

C10_TimerTerminates ==
    /\ [][C10_TickFifteen]_vars
    /\ []C10_Bounded
    /\ \A i \in 1..(MaxTimerOps + 1) :
          (Len(intervals) >= i /\ intervals[i].alive) ~> (Len(intervals) >= i /\ ~intervals[i].alive)

\* an interval was cancelled by its own 15th tick
C10_Witness ==
    /\ lastOp.op = "intervalTick"
    /\ timerRef = 0
    /\ \E i \in 1..Len(intervals) :
          /\ intervals[i].counter = maxIterations
          /\ intervals[i].lines = maxIterations - 1
          /\ ~intervals[i].alive

\* the last handler processed a success response of the analysis request
SuccessResponseArrived ==
    \/ lastOp.op = "attackSettled" /\ lastOp.arg \in {"blocked", "allowed"}
    \/ lastOp.op = "attackSettledV0" /\ lastOp.arg \in {"routed", "blocked"}

\* the operator has acted for the last time
OperatorDone == ops = limits.ops

Idle == status = "READY" /\ activeModuleId = NULL /\ Alive = {}

\* C11 (as claimed): in both console variants, once a success response (blocked
\* or not) has been processed on the mounted console and the operator does not act
\* any more, the console reaches status READY, activeModuleId null, no live timer.
C11_ReturnsToReady ==
    (mounted /\ SuccessResponseArrived /\ OperatorDone) ~> Idle

\* the same, for the /api/analyze console only
C11_ReturnsToReadyAnalyze ==
    (variant = "analyze" /\ mounted /\ SuccessResponseArrived /\ OperatorDone) ~> Idle

\* the step processed a network-level failure of the analysis request
NetworkFailureArrives ==
    /\ lastOp'.op \in {"attackSettled", "attackSettledV0"}
    /\ lastOp'.arg = "networkFailure"
    /\ mounted

\* the step appended one line of category type, kept status and activeModuleId,
\* and left the synthetic log timer running
DegradesGracefully(type) ==
    /\ AppendsOne(type)
    /\ UNCHANGED <<status, activeModuleId>>
    /\ timerRef' \in Alive'

\* C12 (as claimed): in both console variants, when the fetch of the analysis
\* request rejects, the console appends exactly one log entry, of category warning,
\* leaves status and activeModuleId unchanged, and the log timer runs afterwards.
C12_NetworkFailureWarning ==
    [][NetworkFailureArrives => DegradesGracefully("warning")]_vars

\* the same, for the /api/analyze console only
C12_NetworkFailureWarningAnalyze ==
    [][(variant = "analyze" /\ NetworkFailureArrives) => DegradesGracefully("warning")]_vars

\* the step appended exactly two entries, of categories t1 then t2
AppendsTwo(t1, t2) ==
    /\ Len(logs') = Len(logs) + 2
    /\ SubSeq(logs', 1, Len(logs)) = logs
    /\ logs'[Len(logs) + 1].type = t1
    /\ logs'[Len(logs) + 2].type = t2

\* C13: stopAttack invoked while status is ATTACKING sets status READY and
\* activeModuleId null and appends exactly two log lines, the abort confirmation
\* (category error) then the idle notice (category info); in the /api/analyze
\* console, whose stopAttack the claim is about, timerRef is cleared and no
\* interval is alive afterwards.
C13_StopWhileAttacking ==
    [][(lastOp'.op \in {"stopAttack", "stopAttackV0"} /\ status = "ATTACKING")
          => /\ status' = "READY"
             /\ activeModuleId' = NULL
             /\ AppendsTwo("error", "info")
             /\ variant = "analyze" => (timerRef' = 0 /\ Alive' = {})]_vars

\* the operator stopped an attack whose interval was running
C13_Witness ==
    /\ lastOp.op = "stopAttack"
    /\ lastOp.was = "ATTACKING"
    /\ status = "READY"
    /\ timerRef = 0
    /\ Len(intervals) = 1
    /\ ~intervals[1].alive
    /\ intervals[1].counter < maxIterations

\* the step is a call of handlePing / the arrival of a probe's outcome
PingCalled == lastOp'.op \in {"handlePing", "handlePingV0"}
PingCompleted == lastOp'.op \in {"pingSettled", "pingReplyV0"}

\* status, activeModuleId and the log timer (reference, existence, counter) are untouched
PingFrame == UNCHANGED <<status, activeModuleId, timerRef, intervals, requests, timeouts>>

\* the ping button works whatever the status is
PingEnabled == (mounted /\ ops < limits.ops) => ENABLED (handlePing \/ handlePingV0)

\* the arrival of a probe's outcome on the mounted console: one result or error line
PingCompletion ==
    (PingCompleted /\ mounted)
        => (PingFrame /\ pings' = pings - 1 /\ (AppendsOne("success") \/ AppendsOne("error")))

\* C14 (as claimed): the ping action is enabled in every status; handlePing and
\* the arrival of its outcome change nothing but the log list; every call appends
\* one probe line and sends a probe, whose outcome appends one more line.
C14_PingFrame ==
    /\ []PingEnabled
    /\ [][PingCalled => (PingFrame /\ AppendsOne("system") /\ pings' = pings + 1)]_vars
    /\ [][PingCompletion]_vars

\* C14 (amended): the same, except that a call in the /attack console with an
\* empty target appends one error line instead and sends no probe.
C14_PingFrameTargeted ==
    /\ []PingEnabled
    /\ [][PingCalled =>
            /\ PingFrame
            /\ IF variant = "attack" /\ config.target = ""
               THEN AppendsOne("error") /\ pings' = pings
               ELSE AppendsOne("system") /\ pings' = pings + 1]_vars
    /\ [][PingCompletion]_vars

\* a probe was sent and answered while an attack's interval was running
C14_Witness ==
    /\ lastOp.op \in {"pingSettled", "pingReplyV0"}
    /\ lastOp.was = "ATTACKING"
    /\ status = "ATTACKING"
    /\ Alive # {}
    /\ pings = 0
    /\ logs[Len(logs)].type \in {"success", "error"}
    /\ \E i \in 1..(Len(logs) - 1) :
          logs[i].msg \in {"[PROBE] Initiating health check", "Pinging server"}

\* the polling dashboard is on screen
Polling == dashVariant = "poll" /\ dashPhase = "mounted"

\* the step issued exactly one poll
IssuesPoll == issued' = issued + 1 /\ polls' = polls \cup {issued'}

\* C15: mounting the dashboard issues a poll at once and starts the interval;
\* while it is mounted the interval is alive and a tick can fire whatever the
\* earlier polls did (failed, succeeded or still in flight), and every tick
\* issues a poll; unmounting cancels the interval, and no poll is issued after.
C15_PollLoop ==
    /\ [](Polling => pollTimer)
    /\ []((Polling /\ issued < MaxPolls) => ENABLED pollTick)
    /\ []((dashVariant = "poll" /\ dashPhase # "mounted") => ~pollTimer)
    /\ [][lastDash'.op \in {"dashMount", "pollTick"} => (IssuesPoll /\ Polling')]_vars
    /\ [][lastDash'.op = "dashMount" => (dashPhase = "new" /\ pollTimer')]_vars
    /\ [][dashPhase = "unmounted" => (issued' = issued /\ polls' \subseteq polls)]_vars

\* the first poll failed, and the next tick issued the second poll
C15_Witness ==
    /\ Polling
    /\ lastDash.op = "pollTick"
    /\ lastPollError # NULL
    /\ applied = <<1>>
    /\ polls = {2}
    /\ pollTimer

\* the step processed a poll's response on the mounted dashboard
PollProcessed == lastDash'.op = "pollSettled" /\ dashPhase = "mounted"

\* C16: telemetryHistory holds exactly 30 samples in every reachable state; a
\* successful poll drops the sample at the front and appends one sample at the
\* back, the other 29 keeping their order; a failed poll leaves the buffer as it is.
C16_RingBuffer ==
    /\ [](Len(telemetryHistory) = HistoryLen)
    /\ [][(PollProcessed /\ Succeeded(lastDash'.res))
            => /\ SubSeq(telemetryHistory', 1, HistoryLen - 1) = Tail(telemetryHistory)
               /\ telemetryHistory'[HistoryLen] = sample(Len(dashLogs'))]_vars
    /\ [][(PollProcessed /\ ~Succeeded(lastDash'.res)) => UNCHANGED telemetryHistory]_vars

\* two polls succeeded: their samples are the last two, the older one first
C16_Witness ==
    /\ Polling
    /\ Len(applied) = 2
    /\ lastPollError = NULL
    /\ telemetryHistory[HistoryLen - 2] = ZeroSample
    /\ telemetryHistory[HistoryLen - 1] # ZeroSample
    /\ telemetryHistory[HistoryLen] = sample(Len(dashLogs))
    /\ telemetryHistory[HistoryLen] # telemetryHistory[HistoryLen - 1]

\* an entry of the log list that an alert is due for
AlertWorthy(e) == e.status \in {"blocked", "warning"}

\* the position in list l of its k-th alert-worthy entry
WorthyAt(l, k) ==
    CHOOSE i \in 1..Len(l) :
        AlertWorthy(l[i]) /\ Cardinality({j \in 1..i : AlertWorthy(l[j])}) = k

\* as is one alert per alert-worthy entry of l, in the order of l
AlertsFollow(as, l) ==
    /\ Len(as) = Cardinality({i \in 1..Len(l) : AlertWorthy(l[i])})
    /\ \A k \in 1..Len(as) :
          LET e == l[WorthyAt(l, k)]
          IN  /\ as[k].id = e.id
              /\ as[k].msg = e.msg
              /\ as[k].type = "critical" <=> e.status = "blocked"
              /\ as[k].type = "warning" <=> e.status # "blocked"

\* C17: in the polling dashboard, after every successful poll the alert list is
\* the order-preserving subsequence of the current log list made of the entries
\* whose status is blocked or warning, critical exactly for blocked and warning
\* otherwise; in every reachable state every alert's id is the id of a log entry.
C17_AlertsFromLogs ==
    dashVariant = "poll" =>
        /\ (lastDash.op = "pollSettled" /\ Succeeded(lastDash.res)) => AlertsFollow(alerts, dashLogs)
        /\ \A k \in 1..Len(alerts) : \E i \in 1..Len(dashLogs) : alerts[k].id = dashLogs[i].id

\* a truncated snapshot with allowed, warning and blocked entries was applied
C17_Witness ==
    /\ Polling
    /\ lastDash.op = "pollSettled"
    /\ Succeeded(lastDash.res)
    /\ Len(lastDash.res.data) > DashLogCap
    /\ \E a, b \in 1..Len(alerts) : a < b /\ alerts[a].type = "warning" /\ alerts[b].type = "critical"
    /\ 0 < Len(alerts)
    /\ Len(alerts) < Len(dashLogs)

\* the step is a startAttack call that was accepted: a new attack began
AttackAccepted == StartRan(lastOp'.op) /\ attacks' = attacks + 1

\* C18 (as claimed): at most one return-to-READY timeout is pending in every
\* reachable state, and no attack is accepted while one is pending (not even
\* from the card of another module than the active one, whose button is enabled).
C18_OneReturnPending ==
    /\ [](Cardinality(timeouts) <= 1)
    /\ [][(AttackAccepted /\ lastOp'.arg # activeModuleId) => timeouts = {}]_vars

\* C19 (as claimed): every accepted startAttack issues exactly one analysis
\* request in the same step, and at most one analysis request is outstanding in
\* every reachable state.
C19_OneRequest ==
    /\ [][AttackAccepted => \E r \in requests' : r \notin requests /\ requests' = requests \cup {r}]_vars
    /\ [](Cardinality(requests) <= 1)

\* the status changes of the state machine READY -> ATTACKING -> {READY, BLOCKED} -> READY
AllowedTransitions ==
    { <<"READY", "ATTACKING">>, <<"ATTACKING", "BLOCKED">>,
      <<"ATTACKING", "READY">>, <<"BLOCKED", "READY">> }

\* C20 (as claimed): every change of the console's status is READY->ATTACKING,
\* ATTACKING->BLOCKED, ATTACKING->READY or BLOCKED->READY; in particular BLOCKED
\* is never entered from READY and ATTACKING never from BLOCKED.
C20_StatusTransitions ==
    [][status' # status => <<status, status'>> \in AllowedTransitions]_vars

\* C21 (as claimed): once the attack console is unmounted no interval is alive,
\* whenever the unmount happens (also with a request outstanding or a
\* return-to-READY timeout pending).
C21_NoTimerAfterUnmount == ~mounted => Alive = {}

\* C22: lastPollError is null until a poll has completed; on the mounted
\* dashboard a failed poll sets it (also when it was set already), a successful
\* poll resets it to null, and nothing else changes it: it is non-null exactly
\* when the most recently completed poll failed.
C22_StickyError ==
    /\ [](applied = << >> => lastPollError = NULL)
    /\ [][(PollProcessed /\ ~Succeeded(lastDash'.res)) => lastPollError' # NULL]_vars
    /\ [][(PollProcessed /\ Succeeded(lastDash'.res)) => lastPollError' = NULL]_vars
    /\ [][lastDash'.op # "pollSettled" => UNCHANGED lastPollError]_vars

\* two polls failed one after the other: the indicator is still set
C22_Witness ==
    /\ Polling
    /\ Len(applied) = 2
    /\ lastDash.op = "pollSettled"
    /\ ~Succeeded(lastDash.res)
    /\ nodes = << >>
    /\ lastPollError # NULL

\* the last handler applied a poll's response on the mounted dashboard
PollApplied == Polling /\ lastDash.op = "pollSettled" /\ Succeeded(lastDash.res)

\* C23 (as claimed): after a successful poll stats.events is the response's
\* total_logs whenever the response has that field, whatever its value, and the
\* number of normalized log entries only when the field is absent.
C23_EventsPreferUpstream ==
    PollApplied =>
        stats.events = IF lastDash.res.total # NONE THEN lastDash.res.total ELSE Len(dashLogs)

\* the raw record that entry i of the displayed log list was made from
RawOf(i) ==
    LET data == lastDash.res.data
    IN  data[Len(data) - Len(dashLogs) + i]

\* the text that entry i's message starts with, before any threat suffix
Description(i) == dashLogs[i].msg[1]

\* the description of a record that has an attack_type
Described(raw) ==
    IF raw.attack_type \in DOMAIN attackMap THEN attackMap[raw.attack_type] ELSE raw.attack_type

\* the status text of a record
StatusText(raw) ==
    CASE raw.status = "blocked" -> "Blocked"
      [] raw.status = "warning" -> "Warning"
      [] OTHER                  -> "Allowed"

\* C24 (as claimed): the description in a displayed log's message is the table
\* entry of the record's attack_type, the raw attack_type when the table has no
\* entry for it, and 'Request processed' when the record has no attack_type.
C24_AttackDescription ==
    PollApplied =>
        \A i \in 1..Len(dashLogs) :
            Description(i) = IF RawOf(i).attack_type \notin {NULL, ""}
                             THEN Described(RawOf(i)) ELSE "Request processed"

\* C24 (amended): the same for a record that has an attack_type; for a record
\* without one the message is the record's own message, or the status text when
\* it has no message either, and never 'Request processed'.
C24_AttackDescriptionOrMessage ==
    PollApplied =>
        \A i \in 1..Len(dashLogs) :
            /\ Description(i) # "Request processed"
            /\ Description(i) = IF RawOf(i).attack_type \notin {NULL, ""}
                                THEN Described(RawOf(i))
                                ELSE IF RawOf(i).message \notin {NULL, ""}
                                THEN RawOf(i).message ELSE StatusText(RawOf(i))

\* a snapshot with a known code, an unknown code, a bare message and a bare record
C24_Witness ==
    /\ PollApplied
    /\ \E a, b, c, d \in 1..Len(dashLogs) :
          /\ Description(a) = "Brute force attempt"
          /\ Description(b) = "zero_day"
          /\ Description(c) = "GET /index.html"
          /\ RawOf(d).attack_type = NULL /\ RawOf(d).message = NULL /\ Description(d) = "Allowed"

\* the sample the claim gives for a poll with n normalized entries
ClaimedSample(n) ==
    [cpu    |-> IF 10 + (n % 70) > 99 THEN 99 ELSE 10 + (n % 70),
     memory |-> 40 + ((3 * n) % 40),
     net    |-> 50 + ((5 * n) % 300)]

\* C25: the sample appended by a poll with n normalized entries (0 <= n <= 50)
\* is cpu = min(99, 10 + n mod 70), memory = 40 + (3n mod 40), net = 50 +
\* (5n mod 300); every sample in the poller's buffer has 0 <= cpu <= 99 and
\* 0 <= memory <= 100.
C25_SampleOfLogCount ==
    dashVariant = "poll" =>
        /\ PollApplied =>
              /\ Len(dashLogs) \in 0..DashLogCap
              /\ telemetryHistory[HistoryLen] = ClaimedSample(Len(dashLogs))
        /\ \A i \in 1..Len(telemetryHistory) :
              /\ telemetryHistory[i].cpu \in 0..99
              /\ telemetryHistory[i].memory \in 0..100
              /\ \E n \in 0..DashLogCap :
                    telemetryHistory[i] \in {ZeroSample, ClaimedSample(n)}

\* a poll with 50 entries appended its sample
C25_Witness ==
    /\ PollApplied
    /\ Len(dashLogs) = DashLogCap
    /\ telemetryHistory[HistoryLen] = [cpu |-> 60, memory |-> 70, net |-> 300]

\* C26: in every reachable state of the attack console, status READY implies
\* activeModuleId null, and status ATTACKING implies activeModuleId is one of the
\* attack module ids.
C26_StatusAndModule ==
    /\ status = "READY" => activeModuleId = NULL
    /\ status = "ATTACKING" => activeModuleId \in Modules

\* the timeout of a blocked attack returned the console to READY
C26_Witness ==
    /\ lastOp.op = "returnToReady"
    /\ lastOp.was = "BLOCKED"
    /\ status = "READY"
    /\ activeModuleId = NULL

\* the operator has just stopped the attack, and the step handles a response or
\* a timeout (of the stopped attack: nothing was started since)
LateArrivalAfterStop ==
    /\ lastOp.op \in {"stopAttack", "stopAttackV0"}
    /\ lastOp'.op \in {"attackSettled", "attackSettledV0", "returnToReady"}

\* C27 (as claimed): after a manual stopAttack a response or timeout of the
\* stopped attack that arrives later changes neither status (READY) nor
\* activeModuleId (null).
C27_StoppedStaysReady ==
    [][LateArrivalAfterStop => (status' = "READY" /\ activeModuleId' = NULL)]_vars

\* C28 (as claimed): on the mounted console, whenever an interval is alive the
\* status is ATTACKING or BLOCKED, and no interval tick appends a line while the
\* status is READY.
C28_TimerOnlyWhileActive ==
    /\ []((mounted /\ Alive # {}) => status \in {"ATTACKING", "BLOCKED"})
    /\ [][(mounted /\ lastOp'.op \in {"intervalTick", "intervalTickV0"} /\ status = "READY")
            => logs' = logs]_vars

\* the step completes a poll that was issued before one that completed already
StalePollCompletes ==
    /\ lastDash'.op = "pollSettled"
    /\ Len(applied') = Len(applied) + 1
    /\ \E k \in 1..Len(applied) : applied[k] > applied'[Len(applied')]

\* C29 (as claimed): the response of a poll that completes after a later-issued
\* poll has been applied does not overwrite logs, alerts, stats or the error
\* indicator.
C29_NoStaleOverwrite ==
    [][StalePollCompletes => UNCHANGED <<dashLogs, alerts, stats, lastPollError>>]_vars

\* C30 (as claimed): a success response to the confirmed unblock-all request
\* resets the SOAR status to null and shows the success notice only; the failure
\* notice is shown only when the request itself fails; a declined confirmation
\* sends no request and changes nothing.
C30_UnblockNotices ==
    /\ [][(lastSide'.op = "unblockSettled" /\ lastSide'.arg = "ok")
            => (soarStatus' = SoarNull /\ notices' = Append(notices, "Defenses cleared"))]_vars
    /\ [][(Len(notices') > Len(notices) /\ notices'[Len(notices')] = "Failed to clear defenses")
            => (lastSide'.op = "unblockSettled" /\ lastSide'.arg = "rejects")]_vars
    /\ [][(lastSide'.op = "unblockAll" /\ lastSide'.arg = "declined")
            => UNCHANGED <<soarStatus, notices, unblocks, soarFetches>>]_vars

====
